---- MODULE Spec2Model ----
(***************************************************************************)
(* Verification model of the clean_mmt repository:                         *)
(*   src/model/loss.py    MaxMarginRankingLoss, InfoNceLoss, BarlowTwinsLoss*)
(*   src/server.py        cpt_mean_maximum_similarity(2)                   *)
(*   src/model/MMTwins.py MMTwins.forward, sharded_cross_view_inner_product*)
(*                                                                         *)
(* Real numbers are exact rationals [n |-> numerator, d |-> denominator],  *)
(* tensors are sequences (vectors), sequences of sequences (matrices) and  *)
(* so on, flattened row-major by view().                                   *)
(***************************************************************************)
EXTENDS Integers, Sequences, FiniteSets, TLC

VARIABLES
  \* ---- src/model/loss.py ----
  loss_module,   \* which nn.Module was constructed: "mmr", "nce", "bt", "-"
  margin,        \* MaxMarginRankingLoss.margin
  fix_norm,      \* MaxMarginRankingLoss.fix_norm
  lambd,         \* BarlowTwinsLoss.lambd
  temperature,   \* InfoNceLoss.T
  x,             \* the caller's tensor handed to forward (mutated in place)
  x_cuda,        \* x.is_cuda
  x0,            \* value of x when the last forward was entered
  loss_calls,    \* number of forward calls made so far
  loss_ret,      \* what the last forward returned ("-" before the first)
  \* ---- similarity routines (src/server.py, MMTwins.py:647-655) ----
  sim_fn,        \* the routine to call: "mms", "mms2", "sharded", "-"
  txt_rep,       \* argument txt_rep: [txt_bs, Nt, d], or [n_txt, d] for "sharded"
  vid_rep,       \* argument vid_rep: [vid_bs, Nv, d], or [n_vid, d] for "sharded"
  subspaces,     \* argument subspaces of sharded_cross_view_inner_product
  sim_called,    \* TRUE once the routine has returned
  sim_ret,       \* the value returned ("-" before the call)
  \* ---- MMTwins (src/model/MMTwins.py) ----
  self,                 \* the fields of the MMTwins object set by __init__
  args,                 \* the arguments of the forward call
  enc_norm,             \* L2 norm of the video encoder's output at a modality's token
  pc,                   \* position of forward: "idle", "call", "assemble",
                        \* "vid_weights", "txt_weights", "project", "done", "raised"
  ind,                  \* ind[mod][row]: modality available (line 278)
  experts_feats_t,      \* features_t after the clamp of lines 377-384
  tok_id,               \* index of the last token appended
  cursor,               \* loop position of lines 386-422: modality index and frame
  input_ids_list,
  token_type_ids_list,
  position_ids_list,
  features_list,
  attention_mask_list,
  modality_to_tok_map,
  position_ids,         \* stacked position ids handed to vid_bert, or None
  experts,              \* experts[mod]: the encoder output token it is read from
  vid_weights,
  text_weights,
  vid_embd_CL,
  txt_embd_CL,
  fwd_ret               \* what forward returned or raised

loss_vars == <<loss_module, margin, fix_norm, lambd, temperature, x, x_cuda,
               x0, loss_calls, loss_ret>>

sim_vars == <<sim_fn, txt_rep, vid_rep, subspaces, sim_called, sim_ret>>

asm_vars == <<tok_id, cursor, input_ids_list, token_type_ids_list,
              position_ids_list, features_list, attention_mask_list,
              modality_to_tok_map>>
fwd_vars == <<self, args, enc_norm, pc, ind, experts_feats_t, asm_vars,
              position_ids, experts, vid_weights, text_weights, vid_embd_CL,
              txt_embd_CL, fwd_ret>>

vars == <<loss_vars, sim_vars, fwd_vars>>

None == "-"

----------------------------------------------------------------------------
(* Exact rational arithmetic                                               *)

Abs(a) == IF a < 0 THEN -a ELSE a

RECURSIVE Gcd(_, _)
Gcd(a, b) == IF b = 0 THEN a ELSE Gcd(b, a % b)

RatNorm(num, den) ==
  LET g == Gcd(Abs(num), Abs(den))
      s == IF den < 0 THEN -1 ELSE 1
  IN  [n |-> (s * num) \div g, d |-> Abs(den) \div g]

R(i) == [n |-> i, d |-> 1]
Frac(a, b) == RatNorm(a, b)
RAdd(a, b) == RatNorm(a.n * b.d + b.n * a.d, a.d * b.d)
RSub(a, b) == RatNorm(a.n * b.d - b.n * a.d, a.d * b.d)
RMul(a, b) == RatNorm(a.n * b.n, a.d * b.d)
RDiv(a, b) == RatNorm(a.n * b.d, a.d * b.n)
RLess(a, b) == a.n * b.d < b.n * a.d
RLeq(a, b) == a.n * b.d <= b.n * a.d
RMax(a, b) == IF RLess(a, b) THEN b ELSE a
RAbs(a) == [n |-> Abs(a.n), d |-> a.d]

RECURSIVE RSum(_)
RSum(s) == IF s = <<>> THEN R(0) ELSE RAdd(Head(s), RSum(Tail(s)))

RECURSIVE RMaxSeq(_)
RMaxSeq(s) == IF Len(s) = 1 THEN s[1] ELSE RMax(s[1], RMaxSeq(Tail(s)))

----------------------------------------------------------------------------
(* Tensor primitives of torch used by the code                             *)

\* a tensor held in memory: every entry is computed once, when it is built
Tensor(f) == f \o <<>>

\* th.diag(x) of a square matrix
Diag(m) == Tensor([i \in 1..Len(m) |-> m[i][i]])

\* v.unsqueeze(1).expand(n, n): row i repeats v[i]
ExpandCols(v, n) == Tensor([i \in 1..Len(v) |-> Tensor([j \in 1..n |-> v[i]])])

\* m.transpose(0, 1)
Transpose(m) ==
  IF m = <<>> THEN <<>>
  ELSE Tensor([j \in 1..Len(m[1]) |-> Tensor([i \in 1..Len(m) |-> m[i][j]])])

\* m.contiguous().view(-1, 1): row-major flattening of a matrix
Flatten(m) ==
  IF m = <<>> THEN <<>>
  ELSE LET c == Len(m[1])
       IN  Tensor([k \in 1..(Len(m) * c) |-> m[((k - 1) \div c) + 1][((k - 1) % c) + 1]])

\* th.cat((a, b), 0)
Cat(a, b) == a \o b

\* th.ones(shape) - th.eye(n)
OnesMinusEye(n) == Tensor([i \in 1..n |-> Tensor([j \in 1..n |-> IF i = j THEN 0 ELSE 1])])

\* th.nonzero(v).flatten(): the indices of the non-zero entries, ascending
RECURSIVE NonzeroFrom(_, _)
NonzeroFrom(v, k) ==
  IF k > Len(v) THEN <<>>
  ELSE IF v[k] # 0 THEN <<k>> \o NonzeroFrom(v, k + 1)
       ELSE NonzeroFrom(v, k + 1)
Nonzero(v) == NonzeroFrom(v, 1)

\* th.index_select(v, dim=0, index=idx)
IndexSelect(v, idx) == Tensor([k \in 1..Len(idx) |-> v[idx[k]]])

\* F.relu
Relu(a) == IF a.n < 0 THEN R(0) ELSE a

\* tensor.mean(); the mean of an empty tensor is nan
NaN == [n |-> 0, d |-> 0]
Mean(v) == IF Len(v) = 0 THEN NaN ELSE RDiv(RSum(v), R(Len(v)))

----------------------------------------------------------------------------
(* src/model/loss.py                                                       *)

\* mutant: the fix_norm branch is skipped, diagonal terms stay in the mean
MaxMarginForward_KeepDiagonal(xx, mrg, fixn) ==
  LET n   == Len(xx)
      x1a == Flatten(ExpandCols(Diag(xx), n))
      x1  == Cat(x1a, x1a)
      x2  == Cat(Flatten(xx), Flatten(Transpose(xx)))
      mm0 == Tensor([k \in 1..Len(x1) |-> Relu(RSub(mrg, RSub(x1[k], x2[k])))])
  IN  [max_margin |-> mm0, ret |-> Mean(mm0)]

\* mutant: the sign of the margin term is flipped (x1 + x2 for x1 - x2)
MaxMarginForward_SignSlip(xx, mrg, fixn) ==
  LET n   == Len(xx)
      x1a == Flatten(ExpandCols(Diag(xx), n))
      x1  == Cat(x1a, x1a)
      x2  == Cat(Flatten(xx), Flatten(Transpose(xx)))
      idx == Nonzero(Cat(Flatten(OnesMinusEye(n)), Flatten(Transpose(OnesMinusEye(n)))))
      x1_ == IndexSelect(x1, idx)
      x2_ == IndexSelect(x2, idx)
      mm0 == Tensor([k \in 1..Len(x1) |-> Relu(RSub(mrg, RAdd(x1[k], x2[k])))])
      mm1 == Tensor([k \in 1..Len(x1_) |-> Relu(RSub(mrg, RAdd(x1_[k], x2_[k])))])
  IN  [max_margin |-> IF fixn THEN mm1 ELSE mm0,
       ret        |-> Mean(IF fixn THEN mm1 ELSE mm0)]

\* MaxMarginRankingLoss.forward, lines 38-65
MaxMarginForward(xx, mrg, fixn) ==
  LET n    == Len(xx)
      x1a  == Flatten(ExpandCols(Diag(xx), n))
      x1   == Cat(x1a, x1a)
      x2a  == Flatten(xx)
      x3   == Flatten(Transpose(xx))
      x2   == Cat(x2a, x3)
      mm0  == Tensor([k \in 1..Len(x1) |-> Relu(RSub(mrg, RSub(x1[k], x2[k])))])
      keep == OnesMinusEye(n)
      keep1 == Flatten(keep)
      keep2 == Flatten(Transpose(keep))
      keep_idx == Nonzero(Cat(keep1, keep2))
      x1_  == IndexSelect(x1, keep_idx)
      x2_  == IndexSelect(x2, keep_idx)
      mm1  == Tensor([k \in 1..Len(x1_) |-> Relu(RSub(mrg, RSub(x1_[k], x2_[k])))])
  IN  [max_margin |-> IF fixn THEN mm1 ELSE mm0,
       ret        |-> Mean(IF fixn THEN mm1 ELSE mm0)]

\* th.arange(n), as 1-based indices
Arange(n) == Tensor([i \in 1..n |-> i])

\* x /= T on every entry of a matrix (in place in the code)
DivInPlace(m, t) == Tensor([i \in 1..Len(m) |-> Tensor([j \in 1..Len(m[i]) |-> RDiv(m[i][j], t)])])

\* th.nn.CrossEntropyLoss()(inp, target), reduction 'mean'.  The value
\*   mean_i( log(sum_j exp(inp[i][j])) - inp[i][target[i]] )
\* is transcendental; it is kept as the term (logits, target) that determines
\* it, and CELo / CEHi enclose it between two rationals.  The call raises
\* when input and target live on different devices.
CrossEntropyLoss(inp, inp_cuda, target, target_cuda) ==
  [raised |-> inp_cuda # target_cuda, logits |-> inp, target |-> target]

\* max_j z[j] <= log(sum_j exp(z[j])) <= max_j z[j] + log(n), log(n) <= n - 1
\* (log(n) < n - 1 for n >= 2)
CELo(ce) ==
  Mean(Tensor([i \in 1..Len(ce.logits) |->
          RSub(RMaxSeq(ce.logits[i]), ce.logits[i][ce.target[i]])]))
CEHi(ce) == RAdd(CELo(ce), R(Len(ce.logits) - 1))

\* mutant: the division makes a new tensor (x = x / T) and the caller's
\* matrix stays as it was
InfoNceForward_OutOfPlace(xx, xx_cuda, t) ==
  LET xd     == DivInPlace(xx, t)
      n      == Len(xd)
      target == Arange(n)
      l1     == CrossEntropyLoss(xd, xx_cuda, target, xx_cuda)
      l2     == CrossEntropyLoss(Transpose(xd), xx_cuda, target, xx_cuda)
  IN  [x_after |-> xx,
       raised  |-> l1.raised \/ l2.raised,
       ret     |-> <<l1, l2>>]

\* InfoNceLoss.forward, lines 88-95
InfoNceForward(xx, xx_cuda, t) ==
  LET xd     == DivInPlace(xx, t)
      n      == Len(xd)
      target == Arange(n)
      l1     == CrossEntropyLoss(xd, xx_cuda, target, xx_cuda)
      l2     == CrossEntropyLoss(Transpose(xd), xx_cuda, target, xx_cuda)
  IN  [x_after |-> xd,
       raised  |-> l1.raised \/ l2.raised,
       ret     |-> <<l1, l2>>]

\* BarlowTwinsLoss.forward, lines 111-121 (the 0.07 of line 117)
BarlowTemperature == Frac(7, 100)
BarlowTwinsForward(c, c_cuda, lam) ==
  LET cd     == DivInPlace(c, BarlowTemperature)
      d      == Len(cd)
      target == Arange(d)
      l1     == CrossEntropyLoss(cd, c_cuda, target, TRUE)
      l2     == CrossEntropyLoss(Transpose(cd), c_cuda, target, TRUE)
  IN  [x_after |-> cd,
       raised  |-> l1.raised \/ l2.raised,
       ret     |-> <<l1, l2>>]

\* enclosure of the sum of the two cross-entropy terms a forward returns
LossLo(ret) == RAdd(CELo(ret[1]), CELo(ret[2]))
LossHi(ret) == RAdd(CEHi(ret[1]), CEHi(ret[2]))

\* ---- bounds and input sets of the loss specification ----
MaxN == 2
MaxCalls == 2
LossVals == {R(-1), R(1)}
Margins == {R(1), R(2)}
Lambdas == {Frac(51, 10000), R(1)}
Temperatures == {Frac(7, 100), Frac(1, 2)}
SquareMatrices == UNION {[1..n -> [1..n -> LossVals]] : n \in 1..MaxN}

FwdIdle ==
  /\ self = None /\ args = None /\ enc_norm = None /\ pc = "idle"
  /\ ind = None /\ experts_feats_t = None /\ tok_id = None /\ cursor = None
  /\ input_ids_list = None /\ token_type_ids_list = None
  /\ position_ids_list = None /\ features_list = None
  /\ attention_mask_list = None /\ modality_to_tok_map = None
  /\ position_ids = None /\ experts = None /\ vid_weights = None
  /\ text_weights = None /\ vid_embd_CL = None /\ txt_embd_CL = None
  /\ fwd_ret = None

SimIdle ==
  /\ sim_fn = None /\ txt_rep = None /\ vid_rep = None /\ subspaces = None
  /\ sim_called = FALSE /\ sim_ret = None

LossIdle ==
  /\ loss_module = None /\ margin = None /\ fix_norm = None /\ lambd = None
  /\ temperature = None /\ x = None /\ x_cuda = None /\ x0 = None
  /\ loss_calls = 0 /\ loss_ret = None

\* construction of one loss module (the __init__ methods, lines 32-36, 83-86,
\* 100-103) and of the tensor it will be called on
LossInit ==
  /\ SimIdle /\ FwdIdle
  /\ x \in SquareMatrices
  /\ x0 = x
  /\ loss_calls = 0
  /\ loss_ret = None
  /\ \/ /\ loss_module = "mmr"
        /\ margin \in Margins /\ fix_norm \in BOOLEAN
        /\ lambd = None /\ temperature = None /\ x_cuda = FALSE
     \/ /\ loss_module = "nce"
        /\ temperature \in Temperatures
        /\ margin = None /\ fix_norm = None /\ lambd = None
        /\ x_cuda \in BOOLEAN
     \/ /\ loss_module = "bt"
        /\ lambd \in Lambdas
        /\ margin = None /\ fix_norm = None /\ temperature = None
        /\ x_cuda \in BOOLEAN

MaxMarginCall ==
  /\ loss_module = "mmr"
  /\ loss_calls < MaxCalls
  /\ LET r == MaxMarginForward(x, margin, fix_norm)
     IN  loss_ret' = [raised |-> FALSE, ret |-> r.ret, max_margin |-> r.max_margin]
  /\ x0' = x
  /\ loss_calls' = loss_calls + 1
  /\ UNCHANGED <<loss_module, margin, fix_norm, lambd, temperature, x, x_cuda>>
  /\ UNCHANGED <<sim_vars, fwd_vars>>

InfoNceCall ==
  /\ loss_module = "nce"
  /\ loss_calls < MaxCalls
  /\ LET r == InfoNceForward(x, x_cuda, temperature)
     IN  /\ loss_ret' = [raised |-> r.raised, ret |-> r.ret]
         /\ x' = r.x_after
  /\ x0' = x
  /\ loss_calls' = loss_calls + 1
  /\ UNCHANGED <<loss_module, margin, fix_norm, lambd, temperature, x_cuda>>
  /\ UNCHANGED <<sim_vars, fwd_vars>>

BarlowTwinsCall ==
  /\ loss_module = "bt"
  /\ loss_calls < MaxCalls
  /\ LET r == BarlowTwinsForward(x, x_cuda, lambd)
     IN  /\ loss_ret' = [raised |-> r.raised, ret |-> r.ret]
         /\ x' = r.x_after
  /\ x0' = x
  /\ loss_calls' = loss_calls + 1
  /\ UNCHANGED <<loss_module, margin, fix_norm, lambd, temperature, x_cuda>>
  /\ UNCHANGED <<sim_vars, fwd_vars>>

LossNext == MaxMarginCall \/ InfoNceCall \/ BarlowTwinsCall

SpecLoss == LossInit /\ [][LossNext]_vars

----------------------------------------------------------------------------
(* Similarity routines: src/server.py and                                  *)
(* sharded_cross_view_inner_product of src/model/MMTwins.py                *)

\* exact integer square root (the inputs are vectors of integer length)
ISqrt(sq) == CHOOSE r \in 0..sq : r * r = sq

RECURSIVE SumSq(_)
SumSq(v) == IF v = <<>> THEN 0 ELSE Head(v) * Head(v) + SumSq(Tail(v))

\* mutant: the vector is left as it is, not divided by its length
NormalizeVec_Skip(v) == Tensor([k \in 1..Len(v) |-> R(v[k])])

\* F.normalize along the feature dimension: v / max(||v||_2, eps); the zero
\* vector stays zero
NormalizeVec(v) ==
  LET nrm == ISqrt(SumSq(v))
  IN  Tensor([k \in 1..Len(v) |-> IF nrm = 0 THEN R(0) ELSE Frac(v[k], nrm)])

\* F.normalize(t, dim=-1) of a [bs, N, d] tensor; F.normalize(m, dim=1) of [n, d]
Normalize3(t) == Tensor([b \in 1..Len(t) |-> Tensor([i \in 1..Len(t[b]) |-> NormalizeVec(t[b][i])])])
Normalize2(m) == Tensor([i \in 1..Len(m) |-> NormalizeVec(m[i])])

\* a @ b for matrices of rationals, a: [p, q], b: [q, r]
MatMul(a, b) ==
  Tensor([i \in 1..Len(a) |->
     Tensor([j \in 1..Len(b[1]) |->
        RSum(Tensor([k \in 1..Len(b) |-> RMul(a[i][k], b[k][j])]))])])

\* t.unsqueeze(1).repeat(1, k, 1, 1) and t.unsqueeze(0).repeat(k, 1, 1, 1)
RepeatDim1(t, k) == Tensor([a \in 1..Len(t) |-> Tensor([b \in 1..k |-> t[a]])])
RepeatDim0(t, k) == Tensor([a \in 1..k |-> t])

\* t.permute(0, 1, 3, 2) of a 4-d tensor
PermuteLast2(t) ==
  Tensor([a \in 1..Len(t) |-> Tensor([b \in 1..Len(t[a]) |-> Transpose(t[a][b])])])

\* th.matmul of two 4-d tensors: a batch of matrix products
MatMul4(p, q) ==
  Tensor([a \in 1..Len(p) |-> Tensor([b \in 1..Len(p[a]) |-> MatMul(p[a][b], q[a][b])])])

\* th.max(m, dim=-1)[0] and th.max(m, dim=-2)[0] of a matrix
MaxOverCols(m) == Tensor([i \in 1..Len(m) |-> RMaxSeq(m[i])])
MaxOverRows(m) == MaxOverCols(Transpose(m))

\* m.view(r, c): the row-major entries of m laid out as r rows of c
View2(m, r, c) ==
  LET flat == Flatten(m)
  IN  Tensor([i \in 1..r |-> Tensor([j \in 1..c |-> flat[(i - 1) * c + j]])])

\* mutant: t2v averages the token scores over the video tokens' maxima
\* (the two reductions swapped)
MeanMaxT2V_Swapped(sim) ==
  Tensor([t \in 1..Len(sim) |-> Tensor([v \in 1..Len(sim[t]) |-> Mean(MaxOverRows(sim[t][v]))])])

\* th.mean(th.max(sim, dim=-1)[0], dim=-1), server.py:16
MeanMaxT2V(sim) ==
  Tensor([t \in 1..Len(sim) |-> Tensor([v \in 1..Len(sim[t]) |-> Mean(MaxOverCols(sim[t][v]))])])

\* mutant: v2t takes its maximum along the same axis as t2v
MeanMaxV2T_SameAxis(sim) ==
  Tensor([t \in 1..Len(sim) |-> Tensor([v \in 1..Len(sim[t]) |-> Mean(MaxOverCols(sim[t][v]))])])

\* th.mean(th.max(sim, dim=-2)[0], dim=-1), server.py:17
MeanMaxV2T(sim) ==
  Tensor([t \in 1..Len(sim) |-> Tensor([v \in 1..Len(sim[t]) |-> Mean(MaxOverRows(sim[t][v]))])])

\* cpt_mean_maximum_similarity, server.py:5-24
cpt_mean_maximum_similarity(vid, txt) ==
  LET txt_bs == Len(txt)
      vid_bs == Len(vid)
      txt_rep_norm == RepeatDim1(Normalize3(txt), vid_bs)
      vid_rep_norm == RepeatDim0(Normalize3(vid), txt_bs)
      sim == MatMul4(txt_rep_norm, PermuteLast2(vid_rep_norm))
      t2v == MeanMaxT2V(sim)
      v2t == MeanMaxV2T(sim)
  IN  [t2v |-> View2(t2v, txt_bs, vid_bs),
       v2t |-> View2(v2t, vid_bs, txt_bs)]

\* t.view(bs * n_tokens, dim): the tokens of all samples in one list
ViewTokens(t) ==
  IF t = <<>> THEN <<>>
  ELSE LET n == Len(t[1])
       IN  Tensor([k \in 1..(Len(t) * n) |-> t[((k - 1) \div n) + 1][((k - 1) % n) + 1]])

\* m.view(txt_bs, txt_n, vid_bs, vid_n) of a [txt_bs * txt_n, vid_bs * vid_n] matrix
View4(m, tb, tn, vb, vn) ==
  Tensor([t \in 1..tb |-> Tensor([i \in 1..tn |-> Tensor([v \in 1..vb |-> Tensor([j \in 1..vn |->
     m[(t - 1) * tn + i][(v - 1) * vn + j]])])])])

\* cpt_mean_maximum_similarity2, server.py:26-44
cpt_mean_maximum_similarity2(vid, txt) ==
  LET txt_bs == Len(txt)
      txt_n  == Len(txt[1])
      vid_bs == Len(vid)
      vid_n  == Len(vid[1])
      txt_rep_norm == ViewTokens(Normalize3(txt))
      vid_rep_norm == ViewTokens(Normalize3(vid))
      sim == View4(MatMul(txt_rep_norm, Transpose(vid_rep_norm)),
                   txt_bs, txt_n, vid_bs, vid_n)
      \* th.max(sim, dim=-1)[0]: [txt_bs, txt_n, vid_bs]
      mx1 == Tensor([t \in 1..txt_bs |-> Tensor([i \in 1..txt_n |-> Tensor([v \in 1..vid_bs |->
                RMaxSeq(sim[t][i][v])])])])
      \* th.max(sim, dim=1)[0]: [txt_bs, vid_bs, vid_n]
      mx2 == Tensor([t \in 1..txt_bs |-> Tensor([v \in 1..vid_bs |-> Tensor([j \in 1..vid_n |->
                RMaxSeq(Tensor([i \in 1..txt_n |-> sim[t][i][v][j]]))])])])
  IN  [t2v |-> Tensor([t \in 1..txt_bs |-> Tensor([v \in 1..vid_bs |->
                  Mean(Tensor([i \in 1..txt_n |-> mx1[t][i][v]]))])]),
       v2t |-> Tensor([t \in 1..txt_bs |-> Tensor([v \in 1..vid_bs |-> Mean(mx2[t][v])])])]

\* sharded_cross_view_inner_product, MMTwins.py:647-655
sharded_cross_view_inner_product(vid, txt, subs) ==
  LET txt_rep_norm == Normalize2(txt)
      vid_rep_norm == Normalize2(vid)
      sims == MatMul(txt_rep_norm, Transpose(vid_rep_norm))
  IN  sims

\* ---- bounds and input sets of the similarity specification ----
MaxTokens == 4
TxtVecs == {<<3, 4>>, <<0, 10>>}
VidVecs == {<<4, 3>>, <<5, -12>>}
Shapes == {s \in (1..MaxTokens) \X (1..MaxTokens) : s[1] * s[2] <= MaxTokens}
Tensors3(vecs) == UNION {[1..s[1] -> [1..s[2] -> vecs]] : s \in Shapes}
Tensors2(vecs) == UNION {[1..n -> vecs] : n \in 1..MaxTokens}
SubspaceArgs == {<<>>, <<"rgb">>, <<"rgb", "audio">>}

SimInit ==
  /\ LossIdle /\ FwdIdle
  /\ sim_called = FALSE
  /\ sim_ret = None
  /\ \/ /\ sim_fn \in {"mms", "mms2"}
        /\ txt_rep \in Tensors3(TxtVecs)
        /\ vid_rep \in Tensors3(VidVecs)
        /\ subspaces = None
     \/ /\ sim_fn = "sharded"
        /\ txt_rep \in Tensors2(TxtVecs)
        /\ vid_rep \in Tensors2(VidVecs)
        /\ subspaces \in SubspaceArgs

CallMeanMax ==
  /\ sim_fn = "mms" /\ ~sim_called
  /\ sim_called' = TRUE
  /\ sim_ret' = cpt_mean_maximum_similarity(vid_rep, txt_rep)
  /\ UNCHANGED <<sim_fn, txt_rep, vid_rep, subspaces>>
  /\ UNCHANGED <<loss_vars, fwd_vars>>

CallMeanMax2 ==
  /\ sim_fn = "mms2" /\ ~sim_called
  /\ sim_called' = TRUE
  /\ sim_ret' = cpt_mean_maximum_similarity2(vid_rep, txt_rep)
  /\ UNCHANGED <<sim_fn, txt_rep, vid_rep, subspaces>>
  /\ UNCHANGED <<loss_vars, fwd_vars>>

CallSharded ==
  /\ sim_fn = "sharded" /\ ~sim_called
  /\ sim_called' = TRUE
  /\ sim_ret' = sharded_cross_view_inner_product(vid_rep, txt_rep, subspaces)
  /\ UNCHANGED <<sim_fn, txt_rep, vid_rep, subspaces>>
  /\ UNCHANGED <<loss_vars, fwd_vars>>

SimNext == CallMeanMax \/ CallMeanMax2 \/ CallSharded

SpecSim == SimInit /\ [][SimNext]_vars

----------------------------------------------------------------------------
(* MMTwins.forward, src/model/MMTwins.py:260-519                           *)
(*                                                                         *)
(* Tensors computed by the BERT encoders and the linear layers are kept as *)
(* terms naming how they were computed; per-token lists hold one vector of *)
(* b entries (one per batch row) for each token.                           *)

\* th.full(ids_size, v): a vector of b copies of v
Full(b, v) == Tensor([r \in 1..b |-> v])

\* th.max(experts_feats_ind[mod], 1)[0], line 278: per row, the maximum of
\* the frame indicators
RECURSIVE MaxInt(_)
MaxInt(v) == IF Len(v) = 1 THEN v[1]
             ELSE IF v[1] >= MaxInt(Tail(v)) THEN v[1] ELSE MaxInt(Tail(v))

ComputeInd(features_ind, modalities) ==
  [mod \in {modalities[k] : k \in 1..Len(modalities)} |->
     Tensor([r \in 1..Len(features_ind[mod]) |-> MaxInt(features_ind[mod][r])])]

\* tensor.clamp_(min=0, max=max_pos), line 382
Clamp(v, lo, hi) == IF v < lo THEN lo ELSE IF v > hi THEN hi ELSE v

ClampTimes(features_t, modalities, max_pos) ==
  [mod \in {modalities[k] : k \in 1..Len(modalities)} |->
     Tensor([r \in 1..Len(features_t[mod]) |->
        Tensor([f \in 1..Len(features_t[mod][r]) |->
           Clamp(features_t[mod][r][f], 0, max_pos)])])]

\* experts_feats[modality].size()[1], line 374
MaxExpertTokens(mod) == Len(args.features_ind[mod][1])

AggInputs == {"agg", "both", "all"}
TempInputs == {"temp", "both", "all"}

\* the loop position that follows (i, frame): frame -1 stands for the
\* aggregated token of modality i, frame f >= 0 for its temporal token f
FirstOfModality(i) ==
  [mod |-> i, frame |-> IF self.vid_inp \in AggInputs THEN -1 ELSE 0]

AfterToken(c) ==
  IF self.vid_inp \in TempInputs
       /\ c.frame + 1 < MaxExpertTokens(self.modalities[c.mod])
  THEN [mod |-> c.mod, frame |-> c.frame + 1]
  ELSE FirstOfModality(c.mod + 1)

\* lines 272-284 (ind), 349-384: the [CLS] token and the clamp of the times
ForwardBegin ==
  /\ pc = "call"
  /\ self.vid_cont = "bert"
  /\ ind' = ComputeInd(args.features_ind, self.modalities)
  /\ tok_id' = 0
  /\ input_ids_list' = <<Full(args.b, 0)>>
  /\ token_type_ids_list' = <<Full(args.b, 0)>>
  /\ position_ids_list' = <<Full(args.b, 0)>>
  /\ features_list' = <<"zeros">>
  /\ attention_mask_list' = <<Full(args.b, 1)>>
  /\ modality_to_tok_map' = <<>>
  /\ experts_feats_t' =
       IF self.pos_enc = "tint"
       THEN ClampTimes(args.features_t, self.modalities,
                       self.max_position_embeddings - 1)
       ELSE args.features_t
  /\ cursor' = FirstOfModality(1)
  /\ pc' = "assemble"
  /\ UNCHANGED <<self, args, enc_norm, position_ids, experts, vid_weights,
                 text_weights, vid_embd_CL, txt_embd_CL, fwd_ret>>
  /\ UNCHANGED <<loss_vars, sim_vars>>

\* mutant: the map entry is taken before tok_id is advanced
AggTokenIndex_Stale(tok) == tok

\* lines 391-392: tok_id += 1; modality_to_tok_map[modality] = tok_id
AggTokenIndex(tok) == tok + 1

\* mutant: no features are appended for the aggregated token with 'sep'
AggFeatures_NoSep(out_tok, mod) ==
  IF out_tok = "mxp" THEN << <<"maxp_experts", mod>> >>
  ELSE IF out_tok = "mnp" THEN << <<"mnp_experts", mod>> >>
  ELSE <<>>

\* features of the aggregated token, lines 398-404; nothing is appended for
\* another value of out_tok
AggFeatures(out_tok, mod) ==
  IF out_tok = "sep" THEN <<"zeros">>
  ELSE IF out_tok = "mxp" THEN << <<"maxp_experts", mod>> >>
  ELSE IF out_tok = "mnp" THEN << <<"mnp_experts", mod>> >>
  ELSE <<>>

\* lines 389-405: the aggregated feature token of a modality
AppendAgg ==
  /\ pc = "assemble"
  /\ cursor.mod <= Len(self.modalities)
  /\ cursor.frame = -1
  /\ self.vid_inp \in AggInputs
  /\ LET modality   == self.modalities[cursor.mod]
         token_type == self.expert_dims[modality].idx
     IN  /\ tok_id' = AggTokenIndex(tok_id)
         /\ modality_to_tok_map' =
              [m \in (DOMAIN modality_to_tok_map) \cup {modality} |->
                 IF m = modality THEN AggTokenIndex(tok_id)
                 ELSE modality_to_tok_map[m]]
         /\ input_ids_list' = Append(input_ids_list, Full(args.b, 2))
         /\ token_type_ids_list' =
              Append(token_type_ids_list, Full(args.b, token_type))
         /\ position_ids_list' = Append(position_ids_list, Full(args.b, 0))
         /\ features_list' = features_list \o AggFeatures(self.out_tok, modality)
         /\ attention_mask_list' = Append(attention_mask_list, ind[modality])
  /\ cursor' = AfterToken(cursor)
  /\ UNCHANGED <<self, args, enc_norm, pc, ind, experts_feats_t, position_ids,
                 experts, vid_weights, text_weights, vid_embd_CL, txt_embd_CL,
                 fwd_ret>>
  /\ UNCHANGED <<loss_vars, sim_vars>>

\* the position id of temporal token frame_id, lines 408-415; nothing is
\* appended for another value of pos_enc
FramePosition(pos_enc, times, b, frame_id) ==
  IF pos_enc = "ordr" THEN <<Full(b, frame_id + 1)>>
  ELSE IF pos_enc = "tint"
       THEN <<Tensor([r \in 1..b |-> times[r][frame_id + 1]])>>
  ELSE IF pos_enc = "type" THEN <<Full(b, 1)>>
  ELSE <<>>

\* lines 406-422: one temporal feature token of a modality
AppendFea ==
  /\ pc = "assemble"
  /\ cursor.mod <= Len(self.modalities)
  /\ cursor.frame >= 0
  /\ self.vid_inp \in TempInputs
  /\ LET modality   == self.modalities[cursor.mod]
         token_type == self.expert_dims[modality].idx
         frame_id   == cursor.frame
     IN  /\ position_ids_list' =
              position_ids_list \o
                FramePosition(self.pos_enc, experts_feats_t[modality], args.b,
                              frame_id)
         /\ tok_id' = tok_id + 1
         /\ input_ids_list' = Append(input_ids_list, Full(args.b, 6))
         /\ token_type_ids_list' =
              Append(token_type_ids_list, Full(args.b, token_type))
         /\ features_list' =
              Append(features_list, <<"experts_feats", modality, frame_id>>)
         /\ attention_mask_list' =
              Append(attention_mask_list,
                     Tensor([r \in 1..args.b |->
                               args.features_ind[modality][r][frame_id + 1]]))
  /\ cursor' = AfterToken(cursor)
  /\ UNCHANGED <<self, args, enc_norm, pc, ind, experts_feats_t,
                 modality_to_tok_map, position_ids, experts, vid_weights,
                 text_weights, vid_embd_CL, txt_embd_CL, fwd_ret>>
  /\ UNCHANGED <<loss_vars, sim_vars>>

Raise(exc, at) == [exc |-> exc, at |-> at, keys |-> {}, value |-> None]

\* lines 424-454: the lists are stacked, the encoder runs, and experts[mod]
\* is read at modality_to_tok_map[mod]; a modality without an aggregated
\* token has no entry in the map (KeyError)
Encode ==
  /\ pc = "assemble"
  /\ cursor.mod > Len(self.modalities)
  /\ position_ids' = IF self.pos_enc # "none" THEN position_ids_list ELSE None
  /\ LET mods == {self.modalities[k] : k \in 1..Len(self.modalities)}
     IN  IF mods \subseteq DOMAIN modality_to_tok_map
         THEN /\ experts' = [m \in mods |-> <<"last_layer", modality_to_tok_map[m]>>]
              /\ pc' = "vid_weights"
              /\ fwd_ret' = fwd_ret
         ELSE /\ experts' = None
              /\ pc' = "raised"
              /\ fwd_ret' = Raise("KeyError", "experts")
  /\ UNCHANGED <<self, args, enc_norm, ind, experts_feats_t, asm_vars,
                 vid_weights, text_weights, vid_embd_CL, txt_embd_CL>>
  /\ UNCHANGED <<loss_vars, sim_vars>>

\* the attributes __init__ assigns, lines 74-208 (nn.Module raises
\* AttributeError for any other)
InitAttributes ==
  {"sanity_checks", "expert_dims", "modalities", "mimic_ce_dims",
   "concat_experts", "concat_mix_experts", "test_caption_mode",
   "freeze_weights", "use_experts", "use_mask", "keep_missing_modalities",
   "l2renorm", "same_dim", "txt_inp", "txt_agg", "txt_pro", "txt_wgh",
   "vid_inp", "vid_cont", "vid_wgh", "pos_enc", "out_tok", "vid_bert_params",
   "normalize_experts", "rep_dim", "proj_dim", "video_dim_reduce", "vid_bert",
   "post_agg", "txt_bert", "txt_avg2rep", "vid_avg2rep", "txt_projector",
   "vid_projector", "bn", "debug_dataloader"}

\* compute_weights_from_emb, lines 210-231, for an embedding of n_dims
\* dimensions: the first attribute it reads decides whether it runs
compute_weights_from_emb(n_dims) ==
  LET dropout == IF n_dims = 2 THEN "moe_vid_dropout" ELSE "moe_txt_dropout"
  IN  IF dropout \in InitAttributes
      THEN [exc |-> None, weights |-> "softmax"]
      ELSE [exc |-> "AttributeError", weights |-> None]

\* compute_weights_from_norm, lines 233-258, for 2-d expert embeddings whose
\* rows have the norms norm_embd[row][idx]
compute_weights_from_norm(norm_embd) ==
  Tensor([r \in 1..Len(norm_embd) |->
     LET sum_norm == RSum(norm_embd[r])
     IN  Tensor([k \in 1..Len(norm_embd[r]) |-> RDiv(norm_embd[r][k], sum_norm)])])

\* nn.functional.normalize(w, p=1, dim=-1): each row divided by
\* max(sum of absolute values, eps); a zero row stays zero
NormalizeL1(w) ==
  Tensor([r \in 1..Len(w) |->
     LET l1 == RSum(Tensor([k \in 1..Len(w[r]) |-> RAbs(w[r][k])]))
     IN  Tensor([k \in 1..Len(w[r]) |->
                   IF l1.n = 0 THEN R(0) ELSE RDiv(w[r][k], l1)])])

\* line 474
NormalizeVidWeights(w) == NormalizeL1(w)

\* mutant: the missing modalities are not zeroed
MaskMissing_Skip(w, avail) == w

\* lines 468-471: vid_weights * available
MaskMissing(w, avail) ==
  Tensor([r \in 1..Len(w) |->
     Tensor([k \in 1..Len(w[r]) |-> RMul(w[r][k], R(avail[r][k]))])])

Ones(b, m) == Tensor([r \in 1..b |-> Tensor([k \in 1..m |-> R(1)])])

\* lines 456-474: the video weights
VidWeights ==
  /\ pc = "vid_weights"
  /\ LET b == args.b
         m == Len(self.modalities)
         norm_embd == Tensor([r \in 1..b |->
                        Tensor([k \in 1..m |-> R(enc_norm[self.modalities[k]])])])
         emb == compute_weights_from_emb(2)
         available == Tensor([r \in 1..b |->
                        Tensor([k \in 1..m |-> ind[self.modalities[k]][r]])])
         raw == IF self.vid_wgh = "nrm" THEN compute_weights_from_norm(norm_embd)
                ELSE IF self.vid_wgh = "emb" THEN emb.weights
                ELSE Ones(b, m)
         masked == IF ~self.keep_missing_modalities
                   THEN MaskMissing(raw, available) ELSE raw
     IN  IF self.vid_wgh \notin {"nrm", "emb", "none"}
         THEN /\ pc' = "raised"
              /\ fwd_ret' = Raise("NotImplementedError: video weighting mode not supported",
                                  "vid_weights")
              /\ UNCHANGED vid_weights
         ELSE IF self.vid_wgh = "emb" /\ emb.exc # None
         THEN /\ pc' = "raised"
              /\ fwd_ret' = Raise(emb.exc, "vid_weights")
              /\ UNCHANGED vid_weights
         ELSE /\ pc' = "txt_weights"
              /\ vid_weights' = NormalizeVidWeights(masked)
              /\ UNCHANGED fwd_ret
  /\ UNCHANGED <<self, args, enc_norm, ind, experts_feats_t, asm_vars,
                 position_ids, experts, text_weights, vid_embd_CL, txt_embd_CL>>
  /\ UNCHANGED <<loss_vars, sim_vars>>

\* lines 476-485: the text weights; text = last_layer[:, 0] is 2-d
TxtWeights ==
  /\ pc = "txt_weights"
  /\ LET emb == compute_weights_from_emb(2)
     IN  IF self.txt_wgh = "emb"
         THEN IF emb.exc # None
              THEN /\ pc' = "raised"
                   /\ fwd_ret' = Raise(emb.exc, "txt_weights")
                   /\ UNCHANGED text_weights
              ELSE /\ pc' = "project"
                   /\ text_weights' = emb.weights
                   /\ UNCHANGED fwd_ret
         ELSE IF self.txt_wgh = "none"
         THEN /\ pc' = "project"
              /\ text_weights' =
                   Tensor([r \in 1..args.b |->
                      NormalizeL1(Ones(args.captions_per_video,
                                       Len(self.modalities)))])
              /\ UNCHANGED fwd_ret
         ELSE /\ pc' = "raised"
              /\ fwd_ret' = Raise("NotImplementedError: txt weighting mode not supported",
                                  "txt_weights")
              /\ UNCHANGED text_weights
  /\ UNCHANGED <<self, args, enc_norm, ind, experts_feats_t, asm_vars,
                 position_ids, experts, vid_weights, vid_embd_CL, txt_embd_CL>>
  /\ UNCHANGED <<loss_vars, sim_vars>>

\* a tensor produced by the layers: the modules applied (innermost first),
\* the tensor they were applied to, and its number of rows
Applied(modules, input, rows) == [modules |-> modules, input |-> input, rows |-> rows]

\* lines 488-489
VidReps == Applied(<<"vid_avg2rep">>, "vid_avg", args.b)
TxtReps == Applied(<<"txt_avg2rep">>, "text_avg", args.b * args.captions_per_video)

\* a.T @ b of an [n, p] and an [n', p] tensor is defined when n = n'
\* (cpt_cross_corrletaion_matrix, lines 658-667)
cpt_cross_corrletaion_matrix(vid_cl, txt_cl) ==
  IF vid_cl.rows = txt_cl.rows
  THEN [exc |-> None, value |-> <<"corr", vid_cl, txt_cl>>]
  ELSE [exc |-> "RuntimeError: size mismatch", value |-> None]

\* lines 487-519: representations, projection heads and the result
ProjectAndReturn ==
  /\ pc = "project"
  /\ LET v_cl == Applied(<<"vid_avg2rep", "vid_projector", "bn">>, "vid_avg", VidReps.rows)
         t_cl == Applied(<<"txt_avg2rep", "vid_projector", "bn">>, "text_avg", TxtReps.rows)
         corr == cpt_cross_corrletaion_matrix(v_cl, t_cl)
     IN  /\ vid_embd_CL' = v_cl
         /\ txt_embd_CL' = t_cl
         /\ IF args.out = "conf"
            THEN /\ pc' = "done"
                 /\ fwd_ret' =
                      [exc |-> None, at |-> "return",
                       keys |-> {"modalities", "cross_view_conf_matrix"},
                       value |-> <<"sharded_cross_view_inner_product",
                                   TxtReps.rows, VidReps.rows>>]
            ELSE IF args.out = "corr"
            THEN IF corr.exc = None
                 THEN /\ pc' = "done"
                      /\ fwd_ret' =
                           [exc |-> None, at |-> "return",
                            keys |-> {"modalities", "corrletaion_matrix"},
                            value |-> corr.value]
                 ELSE /\ pc' = "raised"
                      /\ fwd_ret' = Raise(corr.exc, "return")
            ELSE /\ pc' = "done"
                 /\ fwd_ret' =
                      [exc |-> None, at |-> "return",
                       keys |-> {"vid_reps", "text_reps"},
                       value |-> <<VidReps, TxtReps>>]
  /\ UNCHANGED <<self, args, enc_norm, ind, experts_feats_t, asm_vars,
                 position_ids, experts, vid_weights, text_weights>>
  /\ UNCHANGED <<loss_vars, sim_vars>>

\* ---- bounds and input sets of the forward specification ----
MaxFrames == 2
MaxBatch == 2
MaxCaptions == 2
AllModalities == {"rgb", "audio"}
\* expert_dims[mod]['idx'] of the configuration
ExpertDims == [mod \in AllModalities |-> [idx |-> IF mod = "rgb" THEN 2 ELSE 1]]
ModalityLists ==
  {<<m>> : m \in AllModalities}
    \cup {<<m1, m2>> : <<m1, m2>> \in {q \in AllModalities \X AllModalities : q[1] # q[2]}}
StartTimes == {-1, 1, 2}
EncoderNorms == {1, 3}

ModSet(mods) == {mods[k] : k \in 1..Len(mods)}

\* indicator rows in which the first valid frames of frames are set
PrefixRow(frames, valid) == [f \in 1..frames |-> IF f <= valid THEN 1 ELSE 0]
IndicatorRows == {PrefixRow(t, l) : <<t, l>> \in {q \in (1..MaxFrames) \X (0..MaxFrames) : q[2] <= q[1]}}
\* the times start, start + 1, ... of the frames of one row
TimesRow(frames, start) == [f \in 1..frames |-> start + f - 1]

\* token assembly: every vid_inp, pos_enc and out_tok on single-row batches
\* whose modalities have 1..MaxFrames frames, a prefix of which is valid
FwdInitTokens ==
  /\ \E mods \in ModalityLists :
       /\ self \in [modalities : {mods}, expert_dims : {ExpertDims},
                    keep_missing_modalities : {FALSE},
                    vid_cont : {"bert"},
                    vid_inp : {"agg", "both", "all", "temp"},
                    pos_enc : {"ordr", "tint", "type", "none"},
                    out_tok : {"sep", "mxp", "mnp"},
                    vid_wgh : {"none"}, txt_wgh : {"none"},
                    max_position_embeddings : {3}]
       /\ \E fi \in [ModSet(mods) -> IndicatorRows] :
          \E start \in (IF self.pos_enc = "tint" THEN StartTimes ELSE {2}) :
            args = [b |-> 1, captions_per_video |-> 1, out |-> "conf",
                    features_ind |-> [m \in ModSet(mods) |-> <<fi[m]>>],
                    features_t |-> [m \in ModSet(mods) |->
                                      <<TimesRow(Len(fi[m]), start)>>]]
       /\ enc_norm = [m \in ModSet(mods) |-> 1]

\* weighting and output: every vid_wgh, txt_wgh, keep_missing_modalities and
\* out on batches of 1..MaxBatch rows, each modality with one frame that is
\* available or not, row by row
FwdInitWeights ==
  /\ \E mods \in ModalityLists :
       /\ self \in [modalities : {mods}, expert_dims : {ExpertDims},
                    keep_missing_modalities : BOOLEAN,
                    vid_cont : {"bert"},
                    vid_inp : {"both"}, pos_enc : {"ordr"}, out_tok : {"mxp"},
                    vid_wgh : {"nrm", "emb", "none", "avg"},
                    txt_wgh : {"emb", "none", "avg"},
                    max_position_embeddings : {3}]
       /\ \E b \in 1..MaxBatch :
            args \in [b : {b}, captions_per_video : 1..MaxCaptions,
                      out : {"conf", "corr", "embds"},
                      features_ind : [ModSet(mods) -> [1..b -> {<<0>>, <<1>>}]],
                      features_t : {[m \in ModSet(mods) |-> [r \in 1..b |-> <<2>>]]}]
       /\ enc_norm \in (IF self.vid_wgh = "nrm"
                        THEN [ModSet(mods) -> EncoderNorms]
                        ELSE {[m \in ModSet(mods) |-> 1]})

FwdInit ==
  /\ LossIdle /\ SimIdle
  /\ pc = "call"
  /\ ind = None /\ experts_feats_t = None /\ tok_id = None /\ cursor = None
  /\ input_ids_list = None /\ token_type_ids_list = None
  /\ position_ids_list = None /\ features_list = None
  /\ attention_mask_list = None /\ modality_to_tok_map = None
  /\ position_ids = None /\ experts = None /\ vid_weights = None
  /\ text_weights = None /\ vid_embd_CL = None /\ txt_embd_CL = None
  /\ fwd_ret = None
  /\ (FwdInitTokens \/ FwdInitWeights)

FwdNext ==
  \/ ForwardBegin \/ AppendAgg \/ AppendFea \/ Encode
  \/ VidWeights \/ TxtWeights \/ ProjectAndReturn

SpecForward == FwdInit /\ [][FwdNext]_vars

----------------------------------------------------------------------------
(* Claims about src/model/loss.py                                          *)

RECURSIVE RSumSet(_, _)
RSumSet(f, S) ==
  IF S = {} THEN R(0)
  ELSE LET e == CHOOSE e \in S : TRUE IN RAdd(f[e], RSumSet(f, S \ {e}))

MaxMarginCalled ==
  loss_module = "mmr" /\ loss_calls > 0 /\ fix_norm /\ Len(x) >= 2

\* the ordered pairs i # j, once for the row term and once for the column term
OffDiagPairs(n) ==
  {<<i, j, side>> \in (1..n) \X (1..n) \X {"row", "col"} : i # j}

RankingTerm(xx, mrg) ==
  [p \in OffDiagPairs(Len(xx)) |->
     LET other == IF p[3] = "row" THEN xx[p[1]][p[2]] ELSE xx[p[2]][p[1]]
     IN  Relu(RAdd(RSub(mrg, xx[p[1]][p[1]]), other))]

\* C1: with fix_norm=True and an n x n score matrix, n >= 2, forward(x) is the
\* arithmetic mean of exactly the 2*n*(n-1) terms max(0, margin - x[i][i] +
\* x[i][j]) and max(0, margin - x[i][i] + x[j][i]) over the ordered pairs
\* i # j; no diagonal entry contributes a term.
C1_MaxMarginIsMeanOfOffDiagonalTerms ==
  MaxMarginCalled =>
    LET n    == Len(x)
        P    == OffDiagPairs(n)
        term == RankingTerm(x, margin)
        mm   == loss_ret.max_margin
    IN  /\ Cardinality(P) = 2 * n * (n - 1)
        /\ Len(mm) = 2 * n * (n - 1)
        /\ \A v \in {term[p] : p \in P} \cup {mm[k] : k \in 1..Len(mm)} :
             Cardinality({k \in 1..Len(mm) : mm[k] = v})
               = Cardinality({p \in P : term[p] = v})
        /\ loss_ret.ret = RDiv(RSumSet(term, P), R(2 * n * (n - 1)))

\* a call whose diagonal would have contributed: the loss is positive and
\* differs from the mean that keeps the diagonal terms
C1_Witness ==
  /\ MaxMarginCalled
  /\ loss_ret.ret.n > 0
  /\ loss_ret.ret # MaxMarginForward_KeepDiagonal(x, margin, fix_norm).ret

MarginsSatisfied(xx, mrg) ==
  \A i \in 1..Len(xx) : \A j \in 1..Len(xx) :
    i # j => /\ RLeq(mrg, RSub(xx[i][i], xx[i][j]))
             /\ RLeq(mrg, RSub(xx[i][i], xx[j][i]))

\* C2: with fix_norm=True and n >= 2 the loss is never negative, and it is
\* zero exactly when every diagonal score exceeds every other score of its
\* row and of its column by at least margin.
C2_MaxMarginZeroIffSeparated ==
  MaxMarginCalled =>
    /\ loss_ret.ret.n >= 0 /\ loss_ret.ret.d > 0
    /\ (loss_ret.ret.n = 0) <=> MarginsSatisfied(x, margin)

C2_Witness ==
  MaxMarginCalled /\ loss_ret.ret = R(0) /\ MarginsSatisfied(x, margin)

BarlowCalled == loss_module = "bt" /\ loss_calls = 1

\* sum_i (c[i][i] - 1)^2 + lambd * sum_{i # j} c[i][j]^2
BarlowFormula(c, lam) ==
  LET n   == Len(c)
      on  == [i \in 1..n |-> RMul(RSub(c[i][i], R(1)), RSub(c[i][i], R(1)))]
      off == [p \in {q \in (1..n) \X (1..n) : q[1] # q[2]} |->
                RMul(c[p[1]][p[2]], c[p[1]][p[2]])]
  IN  RAdd(RSum(on), RMul(lam, RSumSet(off, DOMAIN off)))

\* a returned sum of cross-entropy terms can have the value v only if v lies
\* in its enclosure
LossCanBe(ret, v) == RLeq(LossLo(ret), v) /\ RLeq(v, LossHi(ret))

\* C7: BarlowTwinsLoss.forward(c) returns sum_i (c[i][i] - 1)^2 plus lambd
\* times the sum over i # j of c[i][j]^2 (the Barlow Twins loss), here for a
\* matrix on the GPU.
C7_BarlowTwinsFormula ==
  (BarlowCalled /\ x_cuda) =>
    /\ ~loss_ret.raised
    /\ LossCanBe(loss_ret.ret, BarlowFormula(x0, lambd))

----------------------------------------------------------------------------
(* Claims about the similarity routines                                    *)

RECURSIVE Dot(_, _)
Dot(u, v) == IF u = <<>> THEN 0 ELSE Head(u) * Head(v) + Dot(Tail(u), Tail(v))

\* cosine similarity of two non-zero integer vectors
Cosine(u, v) == Frac(Dot(u, v), ISqrt(SumSq(u)) * ISqrt(SumSq(v)))

RMaxSet(S) == CHOOSE m \in S : \A y \in S : RLeq(y, m)

\* mean over the tokens i of a of the maximum over the tokens j of b of the
\* cosine similarity of a[i] and b[j]
MeanOfMaxCosine(a, b) ==
  LET best == [i \in 1..Len(a) |-> RMaxSet({Cosine(a[i], b[j]) : j \in 1..Len(b)})]
  IN  RDiv(RSumSet(best, 1..Len(a)), R(Len(a)))

MeanMaxCalled == sim_fn = "mms" /\ sim_called

\* C3: t2v has shape [txt_bs, vid_bs], and t2v[t][v] is the mean over the
\* tokens of text t of the maximum over the tokens of video v of the cosine
\* similarity of the two tokens.
C3_T2VIsMeanOfMaxCosine ==
  MeanMaxCalled =>
    /\ Len(sim_ret.t2v) = Len(txt_rep)
    /\ \A t \in 1..Len(txt_rep) :
         /\ Len(sim_ret.t2v[t]) = Len(vid_rep)
         /\ \A v \in 1..Len(vid_rep) :
              sim_ret.t2v[t][v] = MeanOfMaxCosine(txt_rep[t], vid_rep[v])

\* several texts of several tokens against videos of several tokens, where
\* the order of the two reductions matters
C3_Witness ==
  /\ MeanMaxCalled
  /\ Len(txt_rep) >= 2 /\ Len(txt_rep[1]) >= 2 /\ Len(vid_rep[1]) >= 2
  /\ sim_ret.t2v[1][1] # sim_ret.t2v[2][1]
  /\ sim_ret.t2v[1][1] # MeanOfMaxCosine(vid_rep[1], txt_rep[1])

\* C4: v2t has shape [vid_bs, txt_bs] and is indexed video-first: v2t[v][t]
\* is the mean over the tokens of video v of the maximum over the tokens of
\* text t of the cosine similarity, for every txt_bs and vid_bs.
C4_V2TIsVideoFirst ==
  MeanMaxCalled =>
    /\ Len(sim_ret.v2t) = Len(vid_rep)
    /\ \A v \in 1..Len(vid_rep) :
         /\ Len(sim_ret.v2t[v]) = Len(txt_rep)
         /\ \A t \in 1..Len(txt_rep) :
              sim_ret.v2t[v][t] = MeanOfMaxCosine(vid_rep[v], txt_rep[t])

ShardedCalled == sim_fn = "sharded" /\ sim_called

\* C5: sharded_cross_view_inner_product returns an n_txt x n_vid matrix whose
\* entry [i][j] is the cosine similarity of caption i and video j, whatever
\* the subspaces argument is.
C5_ShardedIsCosineMatrix ==
  ShardedCalled =>
    /\ Len(sim_ret) = Len(txt_rep)
    /\ \A i \in 1..Len(txt_rep) :
         /\ Len(sim_ret[i]) = Len(vid_rep)
         /\ \A j \in 1..Len(vid_rep) :
              sim_ret[i][j] = Cosine(txt_rep[i], vid_rep[j])
    /\ \A subs \in SubspaceArgs :
         sharded_cross_view_inner_product(vid_rep, txt_rep, subs) = sim_ret

\* more captions than videos, rows of different length, and a non-empty
\* subspaces argument
C5_Witness ==
  /\ ShardedCalled
  /\ Len(txt_rep) > Len(vid_rep) /\ Len(vid_rep) >= 2
  /\ subspaces # <<>>
  /\ sim_ret[1][1] # sim_ret[1][2]
  /\ sim_ret[1][1] # sim_ret[2][1]

----------------------------------------------------------------------------
(* Claims about MMTwins.forward                                            *)

ForwardEnded == pc \in {"done", "raised"}

\* forward got past the token assembly and the expert lookup of line 454
AssemblyDone ==
  \/ pc \in {"vid_weights", "txt_weights", "project", "done"}
  \/ pc = "raised" /\ fwd_ret.at # "experts"

\* forward got past the normalisation of the video weights, line 474
VidWeightsDone ==
  \/ pc \in {"txt_weights", "project", "done"}
  \/ pc = "raised" /\ fwd_ret.at \in {"txt_weights", "return"}

ExpectedKeys(out) ==
  IF out = "conf" THEN {"modalities", "cross_view_conf_matrix"}
  ELSE IF out = "corr" THEN {"modalities", "corrletaion_matrix"}
  ELSE {"vid_reps", "text_reps"}

\* C6: once forward reaches the selection on out (line 495) it returns the
\* dict whose keys out selects - 'conf', 'corr', anything else - and no
\* value of out makes it raise.
C6_OutSelectsResultAndNeverRaises ==
  (ForwardEnded /\ fwd_ret.at = "return") =>
    /\ fwd_ret.exc = None
    /\ fwd_ret.keys = ExpectedKeys(args.out)

VidSupported == self.vid_wgh \in {"nrm", "emb", "none"}
TxtSupported == self.txt_wgh \in {"emb", "none"}

\* C8: when forward reaches the weighting (line 456): every supported pair
\* of weighting modes gets its weights computed and reaches the result; an
\* unsupported vid_wgh raises NotImplementedError for the video mode, checked
\* first; a supported vid_wgh with an unsupported txt_wgh raises
\* NotImplementedError for the text mode.
C8_WeightingModes ==
  (ForwardEnded /\ fwd_ret.at # "experts") =>
    /\ (VidSupported /\ TxtSupported) => fwd_ret.at = "return"
    /\ ~VidSupported =>
         /\ fwd_ret.at = "vid_weights"
         /\ fwd_ret.exc = "NotImplementedError: video weighting mode not supported"
    /\ (VidSupported /\ ~TxtSupported) =>
         /\ fwd_ret.at = "txt_weights"
         /\ fwd_ret.exc = "NotImplementedError: txt weighting mode not supported"

\* number of frames of the k-th modality and the index of its [AGG] token
FramesOf(k) == Len(args.features_ind[self.modalities[k]][1])
RECURSIVE AggIndex(_)
AggIndex(k) == IF k = 1 THEN 1 ELSE AggIndex(k - 1) + 1 + FramesOf(k - 1)

\* C9: with vid_cont 'bert' and vid_inp 'both' or 'all' the video token
\* sequence is [CLS] (id 0, type 0), then per modality in order one [AGG]
\* token (id 2) followed by its T_mod feature tokens (id 6) in frame order,
\* all of the modality's token type; the length is 1 + sum (1 + T_mod); and
\* modality_to_tok_map[mod], where experts[mod] is read, is the index of the
\* modality's [AGG] token.
C9_TokenSequenceLayout ==
  (AssemblyDone /\ self.vid_cont = "bert" /\ self.vid_inp \in {"both", "all"}) =>
    LET M == Len(self.modalities)
        b == args.b
    IN  /\ input_ids_list[1] = Full(b, 0)
        /\ token_type_ids_list[1] = Full(b, 0)
        /\ Len(input_ids_list) = AggIndex(M) + 1 + FramesOf(M)
        /\ Len(token_type_ids_list) = Len(input_ids_list)
        /\ Len(features_list) = Len(input_ids_list)
        /\ Len(attention_mask_list) = Len(input_ids_list)
        /\ tok_id + 1 = Len(input_ids_list)
        /\ \A k \in 1..M :
             LET mod == self.modalities[k]
                 agg == AggIndex(k)
                 typ == Full(b, self.expert_dims[mod].idx)
             IN  /\ input_ids_list[agg + 1] = Full(b, 2)
                 /\ token_type_ids_list[agg + 1] = typ
                 /\ modality_to_tok_map[mod] = agg
                 /\ experts[mod] = <<"last_layer", agg>>
                 /\ \A f \in 1..FramesOf(k) :
                      /\ input_ids_list[agg + 1 + f] = Full(b, 6)
                      /\ token_type_ids_list[agg + 1 + f] = typ
                      /\ features_list[agg + 1 + f] = <<"experts_feats", mod, f - 1>>
                      /\ attention_mask_list[agg + 1 + f] =
                           [r \in 1..b |-> args.features_ind[mod][r][f]]

\* two modalities with different numbers of frames, assembled with 'all'
C9_Witness ==
  /\ AssemblyDone /\ self.vid_inp = "all"
  /\ Len(self.modalities) = 2
  /\ FramesOf(1) = 2 /\ FramesOf(2) = 1
  /\ modality_to_tok_map[self.modalities[2]] = 4
  /\ Len(input_ids_list) = 6

Available(r) == {k \in 1..Len(self.modalities) : ind[self.modalities[k]][r] # 0}

RowWeightsOk(r) ==
  LET M == Len(self.modalities)
      k == Cardinality(Available(r))
      w == vid_weights[r]
  IN  /\ \A j \in 1..M : j \notin Available(r) => w[j] = R(0)
      /\ \A j \in 1..M : w[j].n >= 0 /\ w[j].d > 0
      /\ RSumSet(w, 1..M) = R(1)
      /\ self.vid_wgh = "none" => \A j \in Available(r) : w[j] = Frac(1, k)

Projected ==
  \/ pc = "done"
  \/ pc = "raised" /\ fwd_ret.at = "return"

\* C11: each view goes through its own projection head: vid_embd_CL is
\* bn(vid_projector(vid_reps)) and txt_embd_CL is bn(txt_projector(txt_reps));
\* the text representation never passes through vid_projector.
C11_EachViewHasItsOwnProjector ==
  Projected =>
    /\ vid_embd_CL = Applied(<<"vid_avg2rep", "vid_projector", "bn">>,
                             "vid_avg", args.b)
    /\ txt_embd_CL = Applied(<<"txt_avg2rep", "txt_projector", "bn">>,
                             "text_avg", args.b * args.captions_per_video)

\* the [CLS] token has been appended (line 360 onwards)
TokensStarted == pc \notin {"idle", "call"}

\* C12: position ids follow '0 = no position, 1 = unknown, >1 = valid
\* position': [CLS] and every [AGG] token have position 0; with pos_enc
\* 'ordr' or 'tint' every temporal feature token whose attention mask is 1
\* has a position greater than 1; position 1 occurs only with pos_enc 'type'.
C12_PositionIdConvention ==
  (TokensStarted /\ self.pos_enc \in {"ordr", "tint", "type"}
     /\ self.out_tok \in {"sep", "mxp", "mnp"}) =>
    \A k \in 1..Len(position_ids_list) :
      \A r \in 1..args.b :
        /\ input_ids_list[k][r] \in {0, 2} => position_ids_list[k][r] = 0
        /\ (input_ids_list[k][r] = 6 /\ self.pos_enc \in {"ordr", "tint"}
              /\ attention_mask_list[k][r] = 1) =>
             position_ids_list[k][r] > 1
        /\ position_ids_list[k][r] = 1 => self.pos_enc = "type"

\* C13: with vid_cont 'bert', vid_inp in {agg, both, all, temp}, out_tok in
\* {sep, mxp, mnp} and pos_enc in {ordr, tint, type}, after every appended
\* token the five lists all have length tok_id + 1.
C13_ListsStayAligned ==
  (TokensStarted /\ self.vid_cont = "bert"
     /\ self.vid_inp \in {"agg", "both", "all", "temp"}
     /\ self.out_tok \in {"sep", "mxp", "mnp"}
     /\ self.pos_enc \in {"ordr", "tint", "type"}) =>
    /\ Len(input_ids_list) = tok_id + 1
    /\ Len(token_type_ids_list) = tok_id + 1
    /\ Len(position_ids_list) = tok_id + 1
    /\ Len(features_list) = tok_id + 1
    /\ Len(attention_mask_list) = tok_id + 1

\* two modalities of two frames each with 'both' and 'sep': the loop is
\* after the aggregated token of the second modality
C13_Witness ==
  /\ pc = "assemble" /\ self.vid_inp = "both" /\ self.out_tok = "sep"
  /\ self.pos_enc = "tint"
  /\ Len(self.modalities) = 2
  /\ cursor = [mod |-> 2, frame |-> 0]
  /\ tok_id = 4
  /\ Len(position_ids_list) = 5 /\ Len(features_list) = 5

\* what the other of the two server.py routines returns on the same arguments
OtherMeanMax ==
  IF sim_fn = "mms" THEN cpt_mean_maximum_similarity2(vid_rep, txt_rep)
  ELSE cpt_mean_maximum_similarity(vid_rep, txt_rep)

\* C14: cpt_mean_maximum_similarity and cpt_mean_maximum_similarity2 return
\* the same t2v for every txt_rep and vid_rep, and the same v2t whenever
\* txt_bs = vid_bs.
C14_MeanMaxRoutinesAgree ==
  (sim_fn \in {"mms", "mms2"} /\ sim_called) =>
    /\ sim_ret.t2v = OtherMeanMax.t2v
    /\ Len(txt_rep) = Len(vid_rep) => sim_ret.v2t = OtherMeanMax.v2t

\* two texts and two videos of two tokens each, on which v2t is neither
\* symmetric nor equal to t2v
C14_Witness ==
  /\ sim_fn = "mms2" /\ sim_called
  /\ Len(txt_rep) = 2 /\ Len(vid_rep) = 2
  /\ Len(txt_rep[1]) = 2 /\ Len(vid_rep[1]) = 2
  /\ sim_ret.v2t[1][2] # sim_ret.v2t[2][1]
  /\ sim_ret.v2t # sim_ret.t2v

----------------------------------------------------------------------------
(* Further claims about src/model/loss.py                                  *)

\* C15: BarlowTwinsLoss.forward(c) does not depend on lambd, and for every
\* square matrix c it returns the loss InfoNceLoss(temperature=0.07).forward
\* returns on an equal matrix: the cross-entropy of the rows of c / 0.07 plus
\* that of its columns, with the diagonal as target.
C15_BarlowIsInfoNceAtFixedTemperature ==
  BarlowCalled =>
    LET nce == InfoNceForward(x0, x_cuda, Frac(7, 100))
    IN  /\ loss_ret.raised = nce.raised
        /\ loss_ret.ret = nce.ret
        /\ \A lam \in Lambdas :
             BarlowTwinsForward(x0, x_cuda, lam).ret = loss_ret.ret

\* InfoNceLoss.forward has returned at least once
InfoNceCalled == loss_module = "nce" /\ loss_calls >= 1

\* C16: InfoNceLoss.forward(x) changes its argument: on return every entry
\* of the caller's x is its value before the call divided by T, the loss
\* returned is the cross-entropy of that divided matrix, and a second call on
\* the same tensor computes the loss of x / T^2, not the first call's x / T.
C16_InfoNceDividesItsArgumentInPlace ==
  [][loss_module = "nce" =>
       /\ x' = DivInPlace(x, temperature)
       /\ loss_ret'.ret[1].logits = x'
       /\ loss_ret'.ret[2].logits = Transpose(x')
       /\ loss_calls = 1 =>
            /\ x' = DivInPlace(DivInPlace(x0, temperature), temperature)
            /\ loss_ret'.ret[1].logits # loss_ret.ret[1].logits]_vars

\* a 2 x 2 matrix after two calls with T = 1/2: the entry that was 1 is 4
C16_Witness ==
  /\ InfoNceCalled /\ loss_calls = 2
  /\ temperature = Frac(1, 2)
  /\ Len(x) = 2
  /\ x0[1][1] = R(2) /\ x[1][1] = R(4)
  /\ x[1][2] = R(-4)
  /\ loss_ret.ret[1].logits = x

====
